---- MODULE Spec2Model ----
(***************************************************************************)
(* A model of src/script.js: the contact form (validation, the deferred    *)
(* submission callback, the reset control), the reveal trigger (the        *)
(* visibility observer and the one-time startup pass), the theme and       *)
(* navigation toggles, the tilt effect and the cursor follower.            *)
(*                                                                         *)
(* Text the script computes with (field values, the mailto link) is a      *)
(* sequence of one-character strings, so that trim(), the email pattern    *)
(* and encodeURIComponent() are computed character by character.  Text the *)
(* script only assigns (feedback messages, button labels) is a string.     *)
(***************************************************************************)
EXTENDS Integers, Sequences, FiniteSets, TLC

VARIABLES
    started,         \* the script (the IIFE of script.js) has run
    formName,        \* form.name.value
    formEmail,       \* form.email.value
    formMessage,     \* form.message.value
    feedbackText,    \* feedback.textContent
    activeElement,   \* which form field holds focus ("body": none of them)
    submitDisabled,  \* submitBtn.disabled
    submitLabel,     \* submitBtn.textContent
    timers,          \* pending setTimeout callbacks, oldest first, each with
                     \* the name/email/message its closure captured
    nextTimerId,     \* the id the next setTimeout call returns
    locationHref,    \* window.location.href
    navigations,     \* how many times window.location.href was assigned
    prefersReduced,  \* matchMedia('(prefers-reduced-motion: reduce)').matches
    innerHeight,     \* window.innerHeight when the script runs
    rectTop,         \* el.getBoundingClientRect().top when the script runs
    revealed,        \* el.classList.contains('revealed')
    observerCreated, \* revealObserver was constructed
    observed,        \* the observation targets of revealObserver
    transitionDelay, \* el.style.transitionDelay in ms (-1: never assigned)
    themeStore,      \* localStorage item 'site-theme' (NoItem: absent)
    storeWrites,     \* how many times localStorage.setItem was called
    bodyClasses,     \* document.body.classList, as a set
    themePressed,    \* themeToggle's aria-pressed attribute
    themeGlyph,      \* themeToggle.textContent
    ariaExpanded,    \* mobileNavToggle's aria-expanded attribute
    navDisplay,      \* nav.style.display
    navGlyph,        \* mobileNavToggle.textContent
    scrollTarget,    \* id of the last element scrolled into view
    onTouchStart,    \* 'ontouchstart' in window
    maxTouchPoints,  \* navigator.maxTouchPoints
    cursorPresent,   \* the document has an element with id 'cursor'
    listeners,       \* per kind of listener of the tilt and cursor features,
                     \* how many times it was registered on each target
    pulseTimers,     \* ids of the setInterval timers that are active
    ringAnim,        \* the id held by the variable ringAnim (0: undefined)
    nextIntervalId,  \* the id the next setInterval call returns
    pulses,          \* how many times cursorRing.animate was called
    windowFocused,   \* the window holds focus
    cursorDisplay,   \* cursor.style.display
    cursorOpacity,   \* cursor.style.opacity
    cursorPos,       \* <<mouseX, mouseY>> of cursor.style.transform
    dotTransform,    \* cursorDot.style.transform
    ringTransform,   \* cursorRing.style.transform
    ringOpacity,     \* cursorRing.style.opacity
    tiltTransform    \* el.style.transform of a [data-tilt] element

formVars == <<formName, formEmail, formMessage, feedbackText, activeElement,
              submitDisabled, submitLabel, timers, nextTimerId, locationHref,
              navigations>>
envVars == <<prefersReduced, innerHeight, rectTop>>
revealVars == <<revealed, observerCreated, observed, transitionDelay>>
themeVars == <<themeStore, storeWrites, bodyClasses, themePressed, themeGlyph>>
navVars == <<ariaExpanded, navDisplay, navGlyph, scrollTarget>>
deviceVars == <<onTouchStart, maxTouchPoints, cursorPresent>>
pulseVars == <<pulseTimers, ringAnim, nextIntervalId, pulses, windowFocused>>
pointerVars == <<cursorPos, dotTransform, ringTransform, ringOpacity,
                 tiltTransform>>
\* Everything of the cursor follower but the overlay's opacity, which every
\* move of the focus between the form's fields can change.
cursorRest == <<listeners, pulseVars, cursorDisplay, pointerVars>>
cursorVars == <<cursorRest, cursorOpacity>>
pageVars == <<themeVars, navVars, deviceVars, cursorRest>>
vars == <<started, formVars, envVars, revealVars, pageVars, cursorOpacity>>

(***************************************************************************)
(* Bounds of the model.                                                    *)
(***************************************************************************)
MaxNameLen == 3        \* longest name of the name sweep
MaxEmailLen == 5       \* longest email of the email sweep
MaxMessageLen == 11    \* longest message of the message sweep
MaxSubmissions == 3    \* accepted submissions (setTimeout calls) per behaviour
NumEls == 3            \* [data-reveal] elements in the document
MaxEntries == 2        \* entries in one batch handed to the observer callback
MaxThemeWrites == 4    \* clicks of the theme toggle per behaviour
MaxPulses == 2         \* elapsed intervals of the ring pulse per behaviour

(***************************************************************************)
(* Text helpers.                                                           *)
(***************************************************************************)
SeqsUpTo(S, n) == UNION {[1..k -> S] : k \in 0..n}
Repeat(c, k) == [i \in 1..k |-> c]
SetMin(S) == CHOOSE x \in S : \A y \in S : x <= y
SetMax(S) == CHOOSE x \in S : \A y \in S : x >= y

UpperCase == {"A", "B", "C", "D", "E", "F", "G", "H", "I", "J", "K", "L", "M",
              "N", "O", "P", "Q", "R", "S", "T", "U", "V", "W", "X", "Y", "Z"}
LowerCase == {"a", "b", "c", "d", "e", "f", "g", "h", "i", "j", "k", "l", "m",
              "n", "o", "p", "q", "r", "s", "t", "u", "v", "w", "x", "y", "z"}
Digits == {"0", "1", "2", "3", "4", "5", "6", "7", "8", "9"}

\* The characters String.prototype.trim() strips and the pattern's \s matches
\* (those of them that the model's texts use).
WhiteSpace == {" ", "\t", "\n"}

\* String.prototype.trim(): the text without its leading and trailing white
\* space.
Trim(s) ==
    LET keep == {i \in 1..Len(s) : s[i] \notin WhiteSpace}
    IN  IF keep = {} THEN <<>> ELSE SubSeq(s, SetMin(keep), SetMax(keep))

\* The class [^\s@] of the email pattern.
NotSpaceNorAt(c) == c \notin WhiteSpace /\ c # "@"

\* /^[^\s@]+@[^\s@]+\.[^\s@]+$/ as the automaton a regular-expression engine
\* runs.  Its positions: 0 at ^, 1 inside the first [^\s@]+, 2 after "@",
\* 3 inside the second [^\s@]+, 4 after "\.", 5 inside the third [^\s@]+
\* (the only position where $ matches).  "." is itself in [^\s@], so from 3 a
\* "." goes to 3 and to 4.
EmailStep(Q, c) ==
    {q \in {1, 3, 5} : NotSpaceNorAt(c) /\ (q - 1 \in Q \/ q \in Q)}
        \cup {q \in {2} : c = "@" /\ 1 \in Q}
        \cup {q \in {4} : c = "." /\ 3 \in Q}
RECURSIVE EmailRun(_, _)
EmailRun(Q, s) ==
    IF s = <<>> THEN Q ELSE EmailRun(EmailStep(Q, Head(s)), Tail(s))
\* The same pattern without its "\.[^\s@]+" part: /^[^\s@]+@[^\s@]+$/.
EmailPatternNoDot(s) == 3 \in EmailRun({0}, s)
EmailPattern(s) == 5 \in EmailRun({0}, s)

\* encodeURIComponent leaves these characters alone.
Unreserved == UpperCase \cup LowerCase \cup Digits
                  \cup {"-", "_", ".", "!", "~", "*", "'", "(", ")"}
\* The code unit of the other characters the model's texts use (all ASCII, so
\* one UTF-8 byte each).
CharCode == ("\t" :> 9) @@ ("\n" :> 10) @@ (" " :> 32) @@ ("&" :> 38)
            @@ (":" :> 58) @@ ("=" :> 61) @@ ("?" :> 63) @@ ("@" :> 64)
HexDigit == <<"0", "1", "2", "3", "4", "5", "6", "7", "8", "9",
              "A", "B", "C", "D", "E", "F">>
EncodeChar(c) ==
    IF c \in Unreserved THEN <<c>>
    ELSE <<"%", HexDigit[(CharCode[c] \div 16) + 1], HexDigit[(CharCode[c] % 16) + 1]>>
\* The encodings of s[lo], ..., s[hi] in order.  (The range is halved, and
\* its bounds are bound by a set constructor, so that the evaluation stays
\* shallow and computes each bound once.)
RECURSIVE EncodeRange(_, _, _)
EncodeRange(s, lo, hi) ==
    IF lo > hi THEN <<>>
    ELSE IF lo = hi THEN EncodeChar(s[lo])
    ELSE CHOOSE r \in { EncodeRange(s, b[1], b[2]) \o EncodeRange(s, b[2] + 1, b[3]) :
                          b \in {<<lo, (lo + hi) \div 2, hi>>} } : TRUE
EncodeURIComponent(s) ==
    CHOOSE r \in { EncodeRange(t, 1, Len(t)) : t \in {s} } : TRUE

(***************************************************************************)
(* The contact form: texts and constants of the submit handler.            *)
(***************************************************************************)
MinNameLen == 2
MinMessageLen == 10
SubmitDelay == 900

NameError == "Please enter your name (2+ characters)."
EmailError == "Please enter a valid email address."
\* The source writes an em dash (U+2014) where this text has "--".
MessageError == "Message is too short -- tell us more about your project."
SuccessText == "Thanks -- message prepared. Your email client will open so you can send it (or use your preferred workflow)."
SendingLabel == "Sending..."
SendLabel == "Send message"

SubjectPrefix == <<"W", "e", "b", "s", "i", "t", "e", " ", "i", "n", "q", "u", "i", "r", "y", " ", "f", "r", "o", "m", " ">>
BodyNameLabel == <<"N", "a", "m", "e", ":", " ">>
BodyEmailLabel == <<"\n", "E", "m", "a", "i", "l", ":", " ">>
BodyBreak == <<"\n", "\n">>
MailtoPrefix == <<"m", "a", "i", "l", "t", "o", ":", "h", "e", "l", "l", "o", "@", "a", "u", "r", "o", "r", "a", ".", "e", "x", "a", "m", "p", "l", "e", "?", "s", "u", "b", "j", "e", "c", "t", "=">>
MailtoBodyKey == <<"&", "b", "o", "d", "y", "=">>

\* The link the deferred callback navigates to.
MailtoSubject(name) == EncodeURIComponent(SubjectPrefix \o name)
MailtoBody(name, email, message) ==
    EncodeURIComponent(BodyNameLabel \o name \o BodyEmailLabel \o email
                       \o BodyBreak \o message)
Mailto(name, email, message) ==
    MailtoPrefix \o MailtoSubject(name) \o MailtoBodyKey
        \o MailtoBody(name, email, message)

\* The three checks of the submit handler, each on the trimmed value.
NameInvalidEmptyOnly(name) == Len(name) < MinNameLen - 1
NameInvalid(name) == Len(name) < MinNameLen
EmailInvalidNoDot(email) == ~EmailPatternNoDot(email)
EmailInvalid(email) == ~EmailPattern(email)
MessageInvalidShorter(message) == Len(message) < MinMessageLen - 1
MessageInvalid(message) == Len(message) < MinMessageLen

\* What the page is before the script runs.  The markup is not part of the
\* repository: the feedback line starts empty, the submit control enabled and
\* labelled 'Send message', and every field's default value is empty.
PageUrl == <<"/">>
DefaultValue == <<>>

(***************************************************************************)
(* Inputs.  The base values are the example of the specification's section *)
(* 8 and short or padded variants of it; the sweeps are every text of a    *)
(* small alphabet up to a bound.                                           *)
(***************************************************************************)
NameBase == { <<"J", "a", "n", "e", " ", "D", "o", "e">>,
              <<" ", "A", "l", " ">>,
              <<"J">> }
EmailBase == { <<"j", "a", "n", "e", "@", "e", "x", "a", "m", "p", "l", "e", ".", "c", "o", "m">>,
               <<"a", "@", "b">> }
MessageBase == { <<"I", " ", "w", "o", "u", "l", "d", " ", "l", "i", "k", "e", " ", "a", " ", "q", "u", "o", "t", "e", " ", "f", "o", "r", " ", "a", " ", "n", "e", "w", " ", "s", "i", "t", "e">>,
                 <<"H", "i", " ", "t", "h", "e", "r", "e">> }
FormInputs == NameBase \X EmailBase \X MessageBase
\* The example, the example under another (padded) name, and a form with
\* nothing valid in it.
FairInputs ==
    { t \in FormInputs :
        \/ t[1] # <<"J">> /\ Len(t[2]) > 3 /\ Len(t[3]) > 10
        \/ t[1] = <<"J">> /\ Len(t[2]) = 3 /\ Len(t[3]) < 10 }

NameAlphabet == {"a", " "}
EmailAlphabet == {"a", "@", ".", " "}
NameSweep == SeqsUpTo(NameAlphabet, MaxNameLen)
EmailSweep == SeqsUpTo(EmailAlphabet, MaxEmailLen)
\* Messages of k letters with up to one blank before and after.
MessageSweep ==
    { Repeat(" ", i) \o Repeat("x", k) \o Repeat(" ", j) :
        <<i, k, j>> \in { t \in (0..1) \X (0..MaxMessageLen) \X (0..1) :
                            t[1] + t[2] + t[3] <= MaxMessageLen } }
SweepInputs == (NameSweep \X EmailBase \X MessageBase)
                   \cup (NameBase \X EmailSweep \X MessageBase)
                   \cup (NameBase \X EmailBase \X MessageSweep)

(***************************************************************************)
(* The reveal trigger: constants and helpers of lines 74-95 and 238-242.   *)
(***************************************************************************)
Els == 1..NumEls
TopValues == {-20, 90, 2600}
ViewportHeights == {100, 3000}

MaxRevealDelay == 300
DelayPercent == 12
FoldPercent == 90

Min2(a, b) == IF a < b THEN a ELSE b
Max2(a, b) == IF a > b THEN a ELSE b
\* Math.round(top * 0.12): the nearest integer, halves upward.
RoundScaled(top) == (2 * DelayPercent * top + 100) \div 200
\* Math.min(300, Math.max(0, Math.round(rect.top * 0.12)))
RevealDelay(top) == Min2(MaxRevealDelay, Max2(0, RoundScaled(top)))

\* el.getBoundingClientRect().top < window.innerHeight * 0.9
WithinFoldOrAt(top, height) == top * 100 <= height * FoldPercent
WithinFold(top, height) == top * 100 < height * FoldPercent

\* Lines 75-95: with reduced motion every candidate is revealed at once and no
\* observer exists; otherwise the flags are left alone.
SetupRevealedNever(rev) == rev
SetupRevealed(rev) ==
    IF prefersReduced THEN [el \in Els |-> TRUE] ELSE rev
\* Lines 238-242: every candidate whose top is within 90% of the viewport
\* height is revealed.
InitialPassRevealed(rev) ==
    [el \in Els |-> rev[el] \/ WithinFold(rectTop[el], innerHeight)]

\* Lines 76-82, one entry: an intersecting entry reveals its target and stops
\* observing it; any other entry does nothing.  st is <<revealed, observed>>.
HandleEntryKeepsObserving(st, e) ==
    IF e.isIntersecting
    THEN <<[st[1] EXCEPT ![e.target] = TRUE], st[2]>>
    ELSE st
HandleEntryToggling(st, e) ==
    IF e.isIntersecting
    THEN <<[st[1] EXCEPT ![e.target] = TRUE], st[2] \ {e.target}>>
    ELSE <<[st[1] EXCEPT ![e.target] = FALSE], st[2]>>
HandleEntry(st, e) ==
    IF e.isIntersecting
    THEN <<[st[1] EXCEPT ![e.target] = TRUE], st[2] \ {e.target}>>
    ELSE st
RECURSIVE HandleEntries(_, _)
HandleEntries(st, entries) ==
    IF entries = <<>> THEN st
    ELSE HandleEntries(HandleEntry(st, Head(entries)), Tail(entries))

\* The batches the observer can hand to its callback: one or more entries,
\* each for a target that is observed when the batch is delivered.
Entries(targets) == [target : targets, isIntersecting : BOOLEAN]
Batches(targets) ==
    UNION {[1..k -> Entries(targets)] : k \in 1..MaxEntries}

(***************************************************************************)
(* The theme and navigation toggles.                                       *)
(***************************************************************************)
NoItem == "(none)"          \* getItem() returned null / attribute absent
Markup == "(markup)"        \* text or attribute as the page's markup has it
DarkClass == "theme-dark"
LightClass == "theme-light"
\* The glyphs are named here; the source writes U+2600 U+FE0F (sun),
\* U+1F319 (moon), U+2630 (menu) and U+2715 (close).
SunGlyph == "sun"
MoonGlyph == "moon"
MenuGlyph == "menu"
CloseGlyph == "close"

\* setAttribute(name, <boolean>) stores the boolean's string.
BoolAttr(b) == IF b THEN "true" ELSE "false"

\* Lines 21-26: a stored theme (any non-empty string) replaces the body's
\* class attribute and sets the toggle; nothing is written to the store.
\* th is <<bodyClasses, themePressed, themeGlyph>>.
ThemeInitIgnoresStore(stored, th) == th
ThemeInit(stored, th) ==
    IF stored # NoItem /\ stored # ""
    THEN <<{stored}, BoolAttr(stored = DarkClass),
           IF stored = DarkClass THEN SunGlyph ELSE MoonGlyph>>
    ELSE th

\* Line 28: classList.toggle('theme-dark') returns whether the class is
\* present afterwards.
IsDarkAfterToggle(classes) == DarkClass \notin classes

\* Lines 28-30: the body's classes after the toggle.
ToggledClassesKeepsLight(classes) ==
    IF IsDarkAfterToggle(classes)
    THEN classes \cup {DarkClass}
    ELSE (classes \ {DarkClass}) \cup {LightClass}
ToggledClasses(classes) ==
    IF IsDarkAfterToggle(classes)
    THEN (classes \cup {DarkClass}) \ {LightClass}
    ELSE (classes \ {DarkClass}) \cup {LightClass}

\* Line 33: the mode written to the store.
StoredModeAlwaysDark(isDark) == DarkClass
StoredMode(isDark) == IF isDark THEN DarkClass ELSE LightClass

\* Lines 40-48, the click handler of the navigation toggle: the flag is
\* flipped from the attribute, the panel and the glyph from the panel's own
\* display.  nv is <<ariaExpanded, navDisplay, navGlyph>>.
NavToggledFlagOnly(nv) == <<BoolAttr(~(nv[1] = "true")), nv[2], nv[3]>>
NavToggled(nv) ==
    IF nv[2] = "block"
    THEN <<BoolAttr(~(nv[1] = "true")), "", MenuGlyph>>
    ELSE <<BoolAttr(~(nv[1] = "true")), "block", CloseGlyph>>

\* mobileNavToggle.click() from another handler runs the click handler.
NavClick ==
    LET nv == NavToggled(<<ariaExpanded, navDisplay, navGlyph>>)
    IN  /\ ariaExpanded' = nv[1]
        /\ navDisplay' = nv[2]
        /\ navGlyph' = nv[3]

\* Lines 230 and 63: the toggle is clicked when the attribute says expanded.
CloseIfExpandedAlways ==
    NavClick
CloseIfExpanded ==
    IF ariaExpanded = "true" THEN NavClick
    ELSE UNCHANGED <<ariaExpanded, navDisplay, navGlyph>>

\* Line 56: href.slice(1).
Slice1(href) == IF href = <<>> THEN <<>> ELSE Tail(href)

\* The internal links of the page and the ids its elements carry: a link to
\* an element, a link to nothing, and a link to an id no element has.
Hrefs == {<<"#", "t", "o", "p">>, <<"#">>, <<"#", "x">>}
ElementIds == {<<"t", "o", "p">>, <<"n", "a", "v">>}
\* Keys of the keydown events.
Keys == {"Escape", "Esc", "Enter"}

(***************************************************************************)
(* The tilt effect and the cursor follower.                                *)
(***************************************************************************)
ListenerKinds ==
    {"tilt.mousemove", "tilt.mouseleave", "document.mousemove",
     "interactive.pointerenter", "interactive.pointerleave",
     "input.focus", "input.blur", "window.blur"}
TiltKinds == {"tilt.mousemove", "tilt.mouseleave"}
CursorKinds == ListenerKinds \ TiltKinds
NoListeners == [k \in ListenerKinds |-> 0]

\* Line 117.
IsTouchIgnoresPoints(touchStart, points) == touchStart
IsTouch(touchStart, points) == touchStart \/ points > 0

\* Lines 118 and 126: the conditions under which the features are set up.
TiltAllowed == ~prefersReduced /\ ~IsTouch(onTouchStart, maxTouchPoints)
CursorAllowed ==
    cursorPresent /\ ~IsTouch(onTouchStart, maxTouchPoints) /\ ~prefersReduced

\* addEventListener for every kind of K on top of the registrations ls.
Register(ls, K) == [k \in ListenerKinds |-> IF k \in K THEN ls[k] + 1 ELSE ls[k]]

\* Lines 118-120 and 126-153: the listeners after the script has run.
StartupListeners(ls) ==
    Register(Register(ls, IF TiltAllowed THEN TiltKinds ELSE {}),
             IF CursorAllowed THEN CursorKinds ELSE {})

\* Lines 104-110: the rotation, in hundredths of a degree, for a pointer at
\* offset (from the element's left or top edge) over an element of the given
\* size: (offset / size - 0.5) * 8.  The sizes of the model divide 800.
TiltWidth == 200
TiltHeight == 100
RotCenti(offset, size) == (800 * offset - 400 * size) \div size
TiltRotation(x, y) == <<0 - RotCenti(y, TiltHeight), RotCenti(x, TiltWidth)>>

\* Lines 138-140 and 143-145: the styles of the dot and the ring.
HoverDot == "translate(-50%,-50%) scale(0.6)"
HoverRing == "translate(-50%,-50%) scale(1.6)"
RestDot == "translate(-50%,-50%) scale(1)"
RestRing == "translate(-50%,-50%) scale(1)"

\* Lines 151-152: what the overlay's opacity becomes when the focus moves
\* from the field (or from none, "body") from to the field (or none) to: the
\* field that loses it is sent blur, the field that gains it focus.
OpacityAfterFocus(ls, from, to, opacity) ==
    IF from = to THEN opacity
    ELSE IF to # "body" /\ ls["input.focus"] > 0 THEN "0"
    ELSE IF from # "body" /\ ls["input.blur"] > 0 THEN "1"
    ELSE opacity

\* The focus moves to a field of the form (field.focus(), or the user).
MoveFocus(to) ==
    /\ activeElement' = to
    /\ cursorOpacity' = OpacityAfterFocus(listeners, activeElement, to,
                                          cursorOpacity)

(***************************************************************************)
(* Initial states: the document before the script runs.                    *)
(***************************************************************************)
InitPage ==
    /\ started = FALSE
    /\ feedbackText = ""
    /\ activeElement = "body"
    /\ submitDisabled = FALSE
    /\ submitLabel = SendLabel
    /\ timers = <<>>
    /\ nextTimerId = 1
    /\ locationHref = PageUrl
    /\ navigations = 0
    /\ revealed = [el \in Els |-> FALSE]
    /\ observerCreated = FALSE
    /\ observed = {}
    /\ transitionDelay = [el \in Els |-> -1]
    /\ storeWrites = 0
    /\ themePressed = Markup
    /\ themeGlyph = Markup
    /\ navDisplay = ""
    /\ navGlyph = Markup
    /\ scrollTarget = <<>>
    /\ listeners = NoListeners
    /\ pulseTimers = {}
    /\ ringAnim = 0
    /\ nextIntervalId = 1
    /\ pulses = 0
    /\ windowFocused = TRUE
    /\ cursorDisplay = ""
    /\ cursorOpacity = ""
    /\ cursorPos = <<>>
    /\ dotTransform = ""
    /\ ringTransform = ""
    /\ ringOpacity = ""
    /\ tiltTransform = <<>>

\* A first visit (nothing stored) to a page whose markup has the light theme
\* and the collapsed navigation.
PlainControls ==
    /\ themeStore = NoItem
    /\ bodyClasses = {LightClass}
    /\ ariaExpanded = "false"

\* A desktop browser: no touch input, and the cursor overlay in the markup.
PlainDevice ==
    /\ onTouchStart = FALSE
    /\ maxTouchPoints = 0
    /\ cursorPresent = TRUE

EmptyFields ==
    /\ formName = DefaultValue
    /\ formEmail = DefaultValue
    /\ formMessage = DefaultValue

\* One environment for the specifications of the form, which no part of the
\* reveal trigger reads or writes.
PlainView ==
    /\ prefersReduced = FALSE
    /\ innerHeight = 100
    /\ rectTop = [el \in Els |-> 90]
PlainEnv ==
    /\ PlainView
    /\ PlainControls
    /\ PlainDevice

\* The form as the user (or the browser's autofill) left it when the script
\* runs: any triple of the sweeps.
InitValidate ==
    /\ InitPage
    /\ PlainEnv
    /\ \E t \in SweepInputs :
        formName = t[1] /\ formEmail = t[2] /\ formMessage = t[3]

InitForm == InitPage /\ PlainEnv /\ EmptyFields

\* The theme and navigation controls: either stored theme or none, over the
\* body classes and the aria-expanded attribute the markup may have.
StoredThemes == {NoItem, DarkClass, LightClass}
MarkupBodyClasses == {{}, {LightClass}, {DarkClass}, {"page", LightClass}}
MarkupExpanded == {"false", NoItem}
InitControls ==
    /\ InitPage
    /\ EmptyFields
    /\ PlainView
    /\ PlainDevice
    /\ themeStore \in StoredThemes
    /\ bodyClasses \in MarkupBodyClasses
    /\ ariaExpanded \in MarkupExpanded

\* The devices and preferences the tilt and cursor features look at.
TouchPoints == {0, 5}
InitCursor ==
    /\ InitPage
    /\ EmptyFields
    /\ PlainControls
    /\ innerHeight = 100
    /\ rectTop = [el \in Els |-> 90]
    /\ prefersReduced \in BOOLEAN
    /\ onTouchStart \in BOOLEAN
    /\ maxTouchPoints \in TouchPoints
    /\ cursorPresent \in BOOLEAN

\* The empty form on a page with or without the cursor follower.
InitReset ==
    /\ InitPage
    /\ EmptyFields
    /\ PlainView
    /\ PlainControls
    /\ maxTouchPoints = 0
    /\ onTouchStart \in BOOLEAN
    /\ cursorPresent \in BOOLEAN

InitReveal ==
    /\ InitPage
    /\ EmptyFields
    /\ prefersReduced \in BOOLEAN
    /\ innerHeight \in ViewportHeights
    /\ rectTop \in [Els -> TopValues]
    /\ PlainControls
    /\ PlainDevice

(***************************************************************************)
(* Actions.                                                                *)
(***************************************************************************)
\* Lines 157-166: startRingPulse() stores the id of a new interval timer in
\* ringAnim.
StartRingPulse ==
    /\ ringAnim' = nextIntervalId
    /\ pulseTimers' = pulseTimers \cup {nextIntervalId}
    /\ nextIntervalId' = nextIntervalId + 1

\* The script runs once: lines 21-26 (stored theme), 74-95 (reveal setup),
\* 116-120 (tilt), 126-170 (cursor) and 238-242 (initial pass); the handlers
\* below are registered by it.
Startup ==
    /\ ~started
    /\ started' = TRUE
    /\ LET th == ThemeInit(themeStore, <<bodyClasses, themePressed, themeGlyph>>)
       IN  /\ bodyClasses' = th[1]
           /\ themePressed' = th[2]
           /\ themeGlyph' = th[3]
    /\ listeners' = StartupListeners(listeners)
    /\ IF CursorAllowed
       THEN StartRingPulse /\ UNCHANGED cursorDisplay
       ELSE /\ cursorDisplay' = IF cursorPresent THEN "none" ELSE cursorDisplay
            /\ UNCHANGED <<ringAnim, pulseTimers, nextIntervalId>>
    /\ UNCHANGED <<themeStore, storeWrites, navVars, deviceVars, pulses,
                   windowFocused, pointerVars, cursorOpacity>>
    /\ revealed' = InitialPassRevealed(SetupRevealed(revealed))
    /\ observerCreated' = ~prefersReduced
    /\ observed' = IF prefersReduced THEN {} ELSE Els
    /\ transitionDelay' =
          IF prefersReduced THEN transitionDelay
          ELSE [el \in Els |-> RevealDelay(rectTop[el])]
    /\ UNCHANGED <<formVars, envVars>>

\* The observer's callback on one batch of entries (lines 76-83).
IntersectionReport(entries) ==
    /\ started
    /\ observerCreated
    /\ LET st == HandleEntries(<<revealed, observed>>, entries)
       IN  revealed' = st[1] /\ observed' = st[2]
    /\ UNCHANGED <<started, formVars, envVars, observerCreated, transitionDelay,
                   pageVars, cursorOpacity>>

\* The user types into the form (no handler of the script runs).
FillForm(t) ==
    /\ started
    /\ formName' = t[1] /\ formEmail' = t[2] /\ formMessage' = t[3]
    /\ UNCHANGED <<started, feedbackText, activeElement, submitDisabled,
                   submitLabel, timers, nextTimerId, locationHref, navigations,
                   envVars, revealVars, pageVars, cursorOpacity>>

\* The rejection of lines 186-188, 191-193 and 196-198: the message and the
\* focus, nothing else.
Reject(text, field) ==
    /\ feedbackText' = text
    /\ MoveFocus(field)
    /\ UNCHANGED <<submitDisabled, submitLabel, timers, nextTimerId>>

\* The acceptance of lines 202-216: the control is disabled and relabelled and
\* the callback is scheduled with the three trimmed values in its closure.
Accept(name, email, message) ==
    /\ nextTimerId <= MaxSubmissions
    /\ feedbackText' = ""
    /\ submitDisabled' = TRUE
    /\ submitLabel' = SendingLabel
    /\ timers' = Append(timers, [id |-> nextTimerId, delay |-> SubmitDelay,
                                 name |-> name, email |-> email,
                                 message |-> message])
    /\ nextTimerId' = nextTimerId + 1
    /\ UNCHANGED <<activeElement, cursorOpacity>>

\* The form's submit handler (lines 178-217).
SubmitHandlerMessageFirst ==
    /\ started
    /\ LET name == Trim(formName)
           email == Trim(formEmail)
           message == Trim(formMessage)
       IN  IF MessageInvalid(message) THEN Reject(MessageError, "message")
           ELSE IF EmailInvalid(email) THEN Reject(EmailError, "email")
           ELSE IF NameInvalid(name) THEN Reject(NameError, "name")
           ELSE Accept(name, email, message)
    /\ UNCHANGED <<started, formName, formEmail, formMessage, locationHref,
                   navigations, envVars, revealVars, pageVars>>
SubmitHandler ==
    /\ started
    /\ LET name == Trim(formName)
           email == Trim(formEmail)
           message == Trim(formMessage)
       IN  IF NameInvalid(name) THEN Reject(NameError, "name")
           ELSE IF EmailInvalid(email) THEN Reject(EmailError, "email")
           ELSE IF MessageInvalid(message) THEN Reject(MessageError, "message")
           ELSE Accept(name, email, message)
    /\ UNCHANGED <<started, formName, formEmail, formMessage, locationHref,
                   navigations, envVars, revealVars, pageVars>>

\* The deferred callback of lines 206-216.  Every timer has the same delay, so
\* the oldest pending one fires first.
SubmitTimeoutKeepsDisabled ==
    /\ timers # <<>>
    /\ LET t == Head(timers)
       IN  /\ submitLabel' = SendLabel
           /\ feedbackText' = SuccessText
           /\ locationHref' = Mailto(t.name, t.email, t.message)
    /\ navigations' = navigations + 1
    /\ timers' = Tail(timers)
    /\ UNCHANGED <<started, formName, formEmail, formMessage, activeElement,
                   submitDisabled, nextTimerId, envVars, revealVars,
                   pageVars, cursorOpacity>>
SubmitTimeoutReadsForm ==
    /\ timers # <<>>
    /\ submitDisabled' = FALSE
    /\ submitLabel' = SendLabel
    /\ feedbackText' = SuccessText
    /\ locationHref' = Mailto(Trim(formName), Trim(formEmail), Trim(formMessage))
    /\ navigations' = navigations + 1
    /\ timers' = Tail(timers)
    /\ UNCHANGED <<started, formName, formEmail, formMessage, activeElement,
                   nextTimerId, envVars, revealVars, pageVars, cursorOpacity>>
SubmitTimeout ==
    /\ timers # <<>>
    /\ timers' = Tail(timers)
    /\ navigations' = navigations + 1
    /\ submitDisabled' = FALSE
    /\ submitLabel' = SendLabel
    /\ feedbackText' = SuccessText
    /\ LET t == Head(timers)
       IN  locationHref' = Mailto(t.name, t.email, t.message)
    /\ UNCHANGED <<started, formName, formEmail, formMessage, activeElement,
                   nextTimerId, envVars, revealVars, pageVars, cursorOpacity>>

\* The reset control's click handler (lines 219-223).
ResetClickCancels ==
    /\ started
    /\ formName' = DefaultValue
    /\ formEmail' = DefaultValue
    /\ formMessage' = DefaultValue
    /\ feedbackText' = ""
    /\ MoveFocus("name")
    /\ timers' = <<>>
    /\ submitDisabled' = FALSE
    /\ submitLabel' = SendLabel
    /\ UNCHANGED <<started, nextTimerId, locationHref, navigations, envVars,
                   revealVars, pageVars>>
ResetClick ==
    /\ started
    /\ formName' = DefaultValue
    /\ formEmail' = DefaultValue
    /\ formMessage' = DefaultValue
    /\ feedbackText' = ""
    /\ MoveFocus("name")
    /\ UNCHANGED <<started, submitDisabled, submitLabel, timers, nextTimerId,
                   locationHref, navigations, envVars, revealVars, pageVars>>

\* The click handler of the theme toggle (lines 27-34).
ThemeToggleClick ==
    /\ started
    /\ storeWrites < MaxThemeWrites
    /\ LET isDark == IsDarkAfterToggle(bodyClasses)
       IN  /\ bodyClasses' = ToggledClasses(bodyClasses)
           /\ themePressed' = BoolAttr(isDark)
           /\ themeGlyph' = IF isDark THEN SunGlyph ELSE MoonGlyph
           /\ themeStore' = StoredMode(isDark)
    /\ storeWrites' = storeWrites + 1
    /\ UNCHANGED <<started, formVars, envVars, revealVars, navVars, deviceVars,
                   cursorVars>>

\* The click handler of the navigation toggle (lines 39-49), on a click of
\* the user.
NavToggleClick ==
    /\ started
    /\ NavClick
    /\ UNCHANGED <<started, formVars, envVars, revealVars, themeVars,
                   scrollTarget, deviceVars, cursorVars>>

\* The document's keydown handler (lines 228-232).
KeyDown(key) ==
    /\ started
    /\ IF key = "Escape" THEN CloseIfExpanded
       ELSE UNCHANGED <<ariaExpanded, navDisplay, navGlyph>>
    /\ UNCHANGED <<started, formVars, envVars, revealVars, themeVars,
                   scrollTarget, deviceVars, cursorVars>>

\* The click handler of an internal link with the given href (lines 55-67).
LinkClickAnyTarget(href) ==
    /\ started
    /\ LET targetId == Slice1(href)
       IN  IF targetId = <<>>
           THEN UNCHANGED navVars
           ELSE scrollTarget' = targetId /\ CloseIfExpanded
    /\ UNCHANGED <<started, formVars, envVars, revealVars, themeVars,
                   deviceVars, cursorVars>>
LinkClick(href) ==
    /\ started
    /\ LET targetId == Slice1(href)
       IN  IF targetId = <<>> \/ targetId \notin ElementIds
           THEN UNCHANGED navVars
           ELSE scrollTarget' = targetId /\ CloseIfExpanded
    /\ UNCHANGED <<started, formVars, envVars, revealVars, themeVars,
                   deviceVars, cursorVars>>

\* A mousemove at client position (x, y) over a [data-tilt] element whose box
\* starts at (left, top): the element's listener (lines 104-111), then, as the
\* event bubbles, the document's (lines 128-132).
TiltMouseMove(x, y, left, top) ==
    /\ started
    /\ tiltTransform' = IF listeners["tilt.mousemove"] > 0
                        THEN TiltRotation(x - left, y - top)
                        ELSE tiltTransform
    /\ cursorPos' = IF listeners["document.mousemove"] > 0
                    THEN <<x, y>> ELSE cursorPos
    /\ UNCHANGED <<started, formVars, envVars, revealVars, themeVars, navVars,
                   deviceVars, listeners, pulseVars, cursorDisplay,
                   dotTransform, ringTransform, ringOpacity, cursorOpacity>>

\* The pointer leaves a [data-tilt] element (lines 112-114).
TiltMouseLeave ==
    /\ started
    /\ tiltTransform' = IF listeners["tilt.mouseleave"] > 0
                        THEN <<>> ELSE tiltTransform
    /\ UNCHANGED <<started, formVars, envVars, revealVars, themeVars, navVars,
                   deviceVars, listeners, pulseVars, cursorDisplay, cursorPos,
                   dotTransform, ringTransform, ringOpacity, cursorOpacity>>

\* The pointer enters an interactive element (lines 137-141).
PointerEnter ==
    /\ started
    /\ IF listeners["interactive.pointerenter"] > 0
       THEN /\ dotTransform' = HoverDot
            /\ ringTransform' = HoverRing
            /\ ringOpacity' = "1"
       ELSE UNCHANGED <<dotTransform, ringTransform, ringOpacity>>
    /\ UNCHANGED <<started, formVars, envVars, revealVars, themeVars, navVars,
                   deviceVars, listeners, pulseVars, cursorDisplay, cursorPos,
                   tiltTransform, cursorOpacity>>

\* The pointer leaves an interactive element (lines 142-146).
PointerLeave ==
    /\ started
    /\ IF listeners["interactive.pointerleave"] > 0
       THEN /\ dotTransform' = RestDot
            /\ ringTransform' = RestRing
            /\ ringOpacity' = "0.9"
       ELSE UNCHANGED <<dotTransform, ringTransform, ringOpacity>>
    /\ UNCHANGED <<started, formVars, envVars, revealVars, themeVars, navVars,
                   deviceVars, listeners, pulseVars, cursorDisplay, cursorPos,
                   tiltTransform, cursorOpacity>>

\* The user moves the focus to a field of the form, or away from them
\* ("body"); the listeners of lines 151-152 run.
UserFocus(to) ==
    /\ started
    /\ to # activeElement
    /\ MoveFocus(to)
    /\ UNCHANGED <<started, formName, formEmail, formMessage, feedbackText,
                   submitDisabled, submitLabel, timers, nextTimerId,
                   locationHref, navigations, envVars, revealVars, pageVars>>

\* An interval of the ring pulse elapses: its callback animates the ring
\* (lines 158-164).
PulseTick ==
    /\ pulseTimers # {}
    /\ pulses < MaxPulses
    /\ pulses' = pulses + 1
    /\ UNCHANGED <<started, formVars, envVars, revealVars, themeVars, navVars,
                   deviceVars, listeners, pulseTimers, ringAnim, nextIntervalId,
                   windowFocused, cursorDisplay, pointerVars, cursorOpacity>>

\* The window loses focus: the blur listener of line 167 clears the timer
\* whose id ringAnim holds.
WindowBlur ==
    /\ started
    /\ windowFocused
    /\ windowFocused' = FALSE
    /\ pulseTimers' = IF listeners["window.blur"] > 0
                      THEN pulseTimers \ {ringAnim} ELSE pulseTimers
    /\ UNCHANGED <<started, formVars, envVars, revealVars, themeVars, navVars,
                   deviceVars, listeners, ringAnim, nextIntervalId, pulses,
                   cursorDisplay, pointerVars, cursorOpacity>>

\* The window gains focus: the script has no listener for it.
WindowFocus ==
    /\ started
    /\ ~windowFocused
    /\ windowFocused' = TRUE
    /\ UNCHANGED <<started, formVars, envVars, revealVars, themeVars, navVars,
                   deviceVars, listeners, pulseTimers, ringAnim, nextIntervalId,
                   pulses, cursorDisplay, pointerVars, cursorOpacity>>

(***************************************************************************)
(* Specifications.                                                         *)
(***************************************************************************)
NextValidate ==
    \/ Startup
    \/ SubmitHandler
    \/ SubmitTimeout
    \/ ResetClick

\* The form as found filled in with any swept triple of field values.
SpecValidate == InitValidate /\ [][NextValidate]_vars

NextForm ==
    \/ Startup
    \/ \E t \in FormInputs : FillForm(t)
    \/ SubmitHandler
    \/ SubmitTimeout
    \/ ResetClick

\* The form from the empty form, filled in and edited at any time.
SpecForm == InitForm /\ [][NextForm]_vars

NextFair ==
    \/ Startup
    \/ \E t \in FairInputs : FillForm(t)
    \/ SubmitHandler
    \/ SubmitTimeout
    \/ ResetClick

\* The form from the empty form, with the browser running every pending timer
\* callback once its delay has passed.
FairForm == InitForm /\ [][NextFair]_vars /\ WF_vars(SubmitTimeout)

NextReveal ==
    \/ Startup
    \/ \E entries \in Batches(observed) : IntersectionReport(entries)
    \/ SubmitHandler
    \/ ResetClick

SpecReveal == InitReveal /\ [][NextReveal]_vars

\* Positions of the pointer and of the box of the [data-tilt] element.
PointerXs == {0, 50, 200}
PointerYs == {0, 100}
BoxLefts == {0}
BoxTops == {0}
Fields == {"name", "email", "message"}

NextCursor ==
    \/ Startup
    \/ \E x \in PointerXs, y \in PointerYs, left \in BoxLefts, top \in BoxTops :
          TiltMouseMove(x, y, left, top)
    \/ TiltMouseLeave
    \/ PointerEnter
    \/ PointerLeave
    \/ \E to \in Fields \cup {"body"} : UserFocus(to)
    \/ PulseTick
    \/ WindowBlur
    \/ WindowFocus

\* The tilt effect and the cursor follower, on any device.
SpecCursor == InitCursor /\ [][NextCursor]_vars

NextReset ==
    \/ Startup
    \/ \E t \in FairInputs : FillForm(t)
    \/ \E to \in Fields \cup {"body"} : UserFocus(to)
    \/ SubmitHandler
    \/ SubmitTimeout
    \/ ResetClick

\* The form with its reset control, the focus moving between the fields.
SpecReset == InitReset /\ [][NextReset]_vars

NextControls ==
    \/ Startup
    \/ ThemeToggleClick
    \/ NavToggleClick
    \/ \E key \in Keys : KeyDown(key)
    \/ \E href \in Hrefs : LinkClick(href)
    \/ ResetClick

\* The theme toggle and the navigation (toggle, Escape, internal links).
SpecControls == InitControls /\ [][NextControls]_vars

(***************************************************************************)
(* Vocabulary of the properties, stated apart from the definitions above.  *)
(***************************************************************************)
RECURSIVE StripLeft(_)
StripLeft(s) ==
    IF s # <<>> /\ Head(s) \in WhiteSpace THEN StripLeft(Tail(s)) ELSE s
RECURSIVE StripRight(_)
StripRight(s) ==
    IF s # <<>> /\ s[Len(s)] \in WhiteSpace
    THEN StripRight(SubSeq(s, 1, Len(s) - 1)) ELSE s
\* The value without the white space around it.
Trimmed(s) == StripRight(StripLeft(s))

\* <one or more non-whitespace non-@ characters>@<one or more>.<one or more>
HasEmailShape(s) ==
    \E i \in 1..Len(s), j \in 1..Len(s) :
        /\ s[i] = "@" /\ s[j] = "."
        /\ i >= 2 /\ j >= i + 2 /\ j < Len(s)
        /\ \A k \in (1..Len(s)) \ {i, j} : s[k] \notin WhiteSpace \cup {"@"}

NameOk == Len(Trimmed(formName)) >= 2
EmailOk == HasEmailShape(Trimmed(formEmail))
MessageOk == Len(Trimmed(formMessage)) >= 10

\* A step that schedules no callback and navigates nowhere.
NothingScheduled ==
    /\ timers' = timers
    /\ nextTimerId' = nextTimerId
    /\ locationHref' = locationHref
    /\ navigations' = navigations

(***************************************************************************)
(* C1.  Every submit attempt whose trimmed name has fewer than 2           *)
(* characters, whatever the email and the message, is rejected: the        *)
(* feedback becomes the name message, focus goes to the name field, the    *)
(* attempt does not disable the submit control (its disabled flag and      *)
(* label are as before, and the control is enabled unless an earlier       *)
(* submission is still pending), no callback is scheduled and nothing is   *)
(* navigated to.                                                           *)
(***************************************************************************)
C1_NameRejected ==
    [][ (SubmitHandler /\ ~NameOk) =>
            /\ feedbackText' = "Please enter your name (2+ characters)."
            /\ activeElement' = "name"
            /\ submitDisabled' = submitDisabled
            /\ submitLabel' = submitLabel
            /\ (timers = <<>> => ~submitDisabled')
            /\ NothingScheduled ]_vars

\* A name of two or more characters that trims to fewer than two was rejected
\* although the email and the message are valid.
C1_Witness ==
    /\ feedbackText = NameError
    /\ activeElement = "name"
    /\ Len(formName) >= 2 /\ ~NameOk
    /\ EmailOk /\ MessageOk
    /\ ~submitDisabled

(***************************************************************************)
(* C2.  Every submit attempt with a valid name whose trimmed email has not *)
(* the shape x@y.z (x, y, z non-empty, free of white space and "@") is     *)
(* rejected with the email message, focus goes to the email field, and no  *)
(* callback is scheduled and nothing is navigated to.                      *)
(***************************************************************************)
C2_EmailRejected ==
    [][ (SubmitHandler /\ NameOk /\ ~EmailOk) =>
            /\ feedbackText' = "Please enter a valid email address."
            /\ activeElement' = "email"
            /\ NothingScheduled ]_vars

\* An email with an "@" and a "." that still has not the shape was rejected.
C2_Witness ==
    /\ feedbackText = EmailError
    /\ activeElement = "email"
    /\ NameOk /\ ~EmailOk /\ MessageOk
    /\ \E i \in 1..Len(formEmail), j \in 1..Len(formEmail) :
          i < j /\ formEmail[i] = "@" /\ formEmail[j] = "."

(***************************************************************************)
(* C3.  Every submit attempt with a valid name and email whose trimmed     *)
(* message has fewer than 10 characters is rejected with the message-      *)
(* length message, focus goes to the message field, and no callback is     *)
(* scheduled and nothing is navigated to.                                  *)
(***************************************************************************)
C3_MessageRejected ==
    [][ (SubmitHandler /\ NameOk /\ EmailOk /\ ~MessageOk) =>
            /\ feedbackText' = MessageError
            /\ activeElement' = "message"
            /\ NothingScheduled ]_vars

\* A message of 10 or more characters that trims to fewer than 10 was
\* rejected.
C3_Witness ==
    /\ feedbackText = MessageError
    /\ activeElement = "message"
    /\ NameOk /\ EmailOk
    /\ Len(formMessage) >= 10 /\ ~MessageOk

(***************************************************************************)
(* C4.  Validation is ordered name, email, message and the first failure   *)
(* wins: whatever fields are invalid, a rejected attempt shows the message *)
(* of the first invalid field in that order and focuses that field; the    *)
(* feedback of earlier attempts never survives an attempt (an accepted     *)
(* attempt leaves the feedback empty).                                     *)
(***************************************************************************)
C4_FirstFailureWins ==
    [][ SubmitHandler =>
            IF ~NameOk
            THEN feedbackText' = NameError /\ activeElement' = "name"
            ELSE IF ~EmailOk
            THEN feedbackText' = EmailError /\ activeElement' = "email"
            ELSE IF ~MessageOk
            THEN feedbackText' = MessageError /\ activeElement' = "message"
            ELSE feedbackText' = "" /\ activeElement' = activeElement ]_vars

\* The email and the message are both invalid, and the email was reported,
\* while an earlier submission is still pending.
C4_Witness ==
    /\ NameOk /\ ~EmailOk /\ ~MessageOk
    /\ feedbackText = EmailError
    /\ activeElement = "email"
    /\ timers # <<>>

(***************************************************************************)
(* C5.  An accepted submission disables the submit control, labels it      *)
(* 'Sending...' and schedules one callback with a delay of 900 ms; when    *)
(* the callback fires the control is enabled again, labelled 'Send         *)
(* message', the success message is shown and a mailto link is navigated   *)
(* to.  Nothing else navigates, every accepted submission is either        *)
(* pending or has navigated exactly once, and (the browser running every   *)
(* due timer) each accepted submission is eventually followed by its own   *)
(* callback: the control enabled, the label restored, the success message  *)
(* and its navigation.                                                     *)
(***************************************************************************)
Pending(id) == \E k \in 1..Len(timers) : timers[k].id = id
IsMailto(href) ==
    Len(href) > 7 /\ SubSeq(href, 1, 7) = <<"m", "a", "i", "l", "t", "o", ":">>

C5_AcceptedThenSent ==
    /\ [][ (SubmitHandler /\ NameOk /\ EmailOk /\ MessageOk) =>
              /\ submitDisabled'
              /\ submitLabel' = "Sending..."
              /\ Len(timers') = Len(timers) + 1
              /\ timers'[Len(timers')].delay = 900
              /\ timers'[Len(timers')].id = nextTimerId
              /\ ~Pending(nextTimerId) ]_vars
    /\ [][ (Len(timers') < Len(timers)) =>
              /\ Len(timers') = Len(timers) - 1
              /\ ~submitDisabled'
              /\ submitLabel' = "Send message"
              /\ feedbackText' = SuccessText
              /\ navigations' = navigations + 1
              /\ IsMailto(locationHref') ]_vars
    /\ [][ (navigations' # navigations \/ locationHref' # locationHref) =>
              Len(timers') < Len(timers) ]_vars
    /\ [](navigations + Len(timers) = nextTimerId - 1)
    /\ \A id \in 1..MaxSubmissions :
          Pending(id) ~> ( /\ ~Pending(id)
                           /\ navigations = id
                           /\ ~submitDisabled
                           /\ submitLabel = "Send message"
                           /\ feedbackText = SuccessText
                           /\ IsMailto(locationHref) )

\* A callback has fired: the control is enabled and relabelled, the success
\* message shows and the page has navigated to a mailto link.
C5_Witness ==
    /\ navigations = 1
    /\ timers = <<>>
    /\ ~submitDisabled
    /\ submitLabel = SendLabel
    /\ feedbackText = SuccessText
    /\ IsMailto(locationHref)

(***************************************************************************)
(* C6.  The form follows idle -> validating -> {rejected -> idle,          *)
(* accepted -> submitting -> idle}: at most one accepted submission is     *)
(* pending in every reachable state, and the submit control is disabled    *)
(* for as long as a submission is pending.                                 *)
(***************************************************************************)
C6_OnePendingAndDisabled ==
    /\ Len(timers) <= 1
    /\ (timers # <<>> => submitDisabled)

(***************************************************************************)
(* C7.  An accepted submission cannot be aborted.  No step removes or      *)
(* changes a pending callback except its own firing: a step either leaves  *)
(* the pending callbacks alone, or adds one that holds the trimmed name,   *)
(* email and message of the form at that submit event, or fires the        *)
(* oldest, which shows the success message (whatever the feedback was) and *)
(* navigates to the mailto link of the values that callback holds, not of  *)
(* the form's values at that time.  Whatever happens in between, every     *)
(* pending callback does fire, with the link of the values it was          *)
(* scheduled with; for the specification's example that link is the        *)
(* literal below.                                                          *)
(***************************************************************************)
\* mailto:hello@aurora.example?subject=Website%20inquiry%20from%20Jane%20Doe
\* &body=Name%3A%20Jane%20Doe%0AEmail%3A%20jane%40example.com%0A%0A
\* I%20would%20like%20a%20quote%20for%20a%20new%20site
ExampleLink ==
    <<"m", "a", "i", "l", "t", "o", ":", "h", "e", "l", "l", "o", "@", "a",
      "u", "r", "o", "r", "a", ".", "e", "x", "a", "m", "p", "l", "e", "?",
      "s", "u", "b", "j", "e", "c", "t", "=", "W", "e", "b", "s", "i", "t",
      "e", "%", "2", "0", "i", "n", "q", "u", "i", "r", "y", "%", "2", "0",
      "f", "r", "o", "m", "%", "2", "0", "J", "a", "n", "e", "%", "2", "0",
      "D", "o", "e", "&", "b", "o", "d", "y", "=", "N", "a", "m", "e", "%",
      "3", "A", "%", "2", "0", "J", "a", "n", "e", "%", "2", "0", "D", "o",
      "e", "%", "0", "A", "E", "m", "a", "i", "l", "%", "3", "A", "%", "2",
      "0", "j", "a", "n", "e", "%", "4", "0", "e", "x", "a", "m", "p", "l",
      "e", ".", "c", "o", "m", "%", "0", "A", "%", "0", "A", "I", "%", "2",
      "0", "w", "o", "u", "l", "d", "%", "2", "0", "l", "i", "k", "e", "%",
      "2", "0", "a", "%", "2", "0", "q", "u", "o", "t", "e", "%", "2", "0",
      "f", "o", "r", "%", "2", "0", "a", "%", "2", "0", "n", "e", "w", "%",
      "2", "0", "s", "i", "t", "e">>
ExampleCapture ==
    [name |-> <<"J", "a", "n", "e", " ", "D", "o", "e">>,
     email |-> <<"j", "a", "n", "e", "@", "e", "x", "a", "m", "p", "l", "e", ".", "c", "o", "m">>,
     message |-> <<"I", " ", "w", "o", "u", "l", "d", " ", "l", "i", "k", "e", " ", "a", " ", "q", "u", "o", "t", "e", " ", "f", "o", "r", " ", "a", " ", "n", "e", "w", " ", "s", "i", "t", "e">>]
LinkOf(c) == Mailto(c.name, c.email, c.message)

C7_NoAbort ==
    /\ [][ \/ timers' = timers
           \/ /\ SubmitHandler
              /\ timers' = Append(timers,
                     [id |-> nextTimerId, delay |-> 900,
                      name |-> Trimmed(formName), email |-> Trimmed(formEmail),
                      message |-> Trimmed(formMessage)])
           \/ /\ timers # <<>>
              /\ timers' = Tail(timers)
              /\ feedbackText' = SuccessText
              /\ locationHref' = LinkOf(Head(timers))
              /\ (LinkOf(Head(timers)) = LinkOf(ExampleCapture)
                    => locationHref' = ExampleLink) ]_vars
    /\ \A id \in 1..MaxSubmissions :
          Pending(id) ~> (~Pending(id) /\ navigations = id
                            /\ feedbackText = SuccessText)

\* The callback of the specification's example fired after the form was
\* reset: the link is the example's, the form is empty.
C7_Witness ==
    /\ navigations >= 1
    /\ feedbackText = SuccessText
    /\ locationHref = ExampleLink
    /\ formName = <<>> /\ formEmail = <<>> /\ formMessage = <<>>

(***************************************************************************)
(* Vocabulary of the properties of the reveal trigger.                     *)
(***************************************************************************)
\* The element's top is within 90% of the viewport height.
Before90(el) == rectTop[el] * 10 < innerHeight * 9
\* The step in which the script runs.
StartupStep == ~started /\ started'

(***************************************************************************)
(* C8, as claimed.  The revealed flag is one-way: a revealed element stays *)
(* revealed (so its flag is set at most once), and nothing that happens    *)
(* afterwards, an intersection report for it included, changes anything    *)
(* about it: not its flag, not whether it is observed, not its delay.      *)
(***************************************************************************)
C8_ReportChangesNothing ==
    [][ \A el \in Els :
            revealed[el] =>
                /\ revealed'[el]
                /\ (el \in observed') <=> (el \in observed)
                /\ transitionDelay'[el] = transitionDelay[el] ]_vars

(***************************************************************************)
(* C8, amended.  The revealed flag is one-way: a revealed element stays    *)
(* revealed (so its flag is set at most once), and nothing that happens    *)
(* afterwards, an intersection report for it included, changes its flag or *)
(* its delay; all a report can do to it is stop observing it (it is never  *)
(* observed again).                                                        *)
(***************************************************************************)
C8_RevealedOneWay ==
    [][ \A el \in Els :
            revealed[el] =>
                /\ revealed'[el]
                /\ (el \in observed') => (el \in observed)
                /\ transitionDelay'[el] = transitionDelay[el] ]_vars

\* An element the startup pass revealed was reported intersecting afterwards:
\* it is still revealed, and no longer observed.
C8_Witness ==
    /\ started /\ ~prefersReduced
    /\ \E el \in Els : Before90(el) /\ revealed[el] /\ el \notin observed
    /\ \E el \in Els : ~revealed[el]

(***************************************************************************)
(* C9, as claimed.  When the script has run, an element whose top is at or *)
(* beyond 90% of the viewport height is not revealed and every element     *)
(* whose top is within it is; afterwards an element becomes revealed only  *)
(* by a report of the observer that has it intersecting.                   *)
(***************************************************************************)
\* After startup a flag is set only by the observer's callback handling an
\* intersecting entry for the element: the element was observed, and the step
\* stops observing it and touches nothing but flags and observation targets.
RevealedOnlyByReport ==
    \A el \in Els :
        (started /\ ~revealed[el] /\ revealed'[el]) =>
            /\ observerCreated
            /\ el \in observed /\ el \notin observed'
            /\ UNCHANGED <<formVars, envVars, observerCreated, transitionDelay,
                           pageVars, cursorOpacity>>

C9_BeyondFoldNeverAtStartup ==
    [][ /\ StartupStep =>
              \A el \in Els : revealed'[el] <=> Before90(el)
        /\ RevealedOnlyByReport ]_vars

(***************************************************************************)
(* C9, amended.  When the script has run without the reduced-motion        *)
(* preference, an element whose top is at or beyond 90% of the viewport    *)
(* height is not revealed; with or without the preference every element    *)
(* whose top is within it is revealed; afterwards an element becomes       *)
(* revealed only by a report of the observer that has it intersecting.     *)
(***************************************************************************)
C9_StartupPass ==
    [][ /\ StartupStep =>
              \A el \in Els :
                  /\ Before90(el) => revealed'[el]
                  /\ (~prefersReduced /\ ~Before90(el)) => ~revealed'[el]
        /\ RevealedOnlyByReport ]_vars

\* Without the preference: an element exactly at 90% is still not revealed,
\* one beyond it was revealed by the observer, one within it is revealed.
C9_Witness ==
    /\ started /\ ~prefersReduced
    /\ \E el \in Els :
          rectTop[el] * 10 = innerHeight * 9 /\ ~revealed[el] /\ el \in observed
    /\ \E el \in Els : ~Before90(el) /\ revealed[el] /\ el \notin observed
    /\ \E el \in Els : Before90(el) /\ revealed[el]

(***************************************************************************)
(* C10.  With the reduced-motion preference every reveal candidate is      *)
(* revealed when the script has run, wherever it is, no observer is        *)
(* created and no element is ever observed; without it the one observer    *)
(* is created and every candidate is registered with it.                   *)
(***************************************************************************)
C10_ReducedMotion ==
    /\ [][ StartupStep =>
              IF prefersReduced
              THEN /\ \A el \in Els : revealed'[el]
                   /\ ~observerCreated'
                   /\ observed' = {}
              ELSE /\ observerCreated'
                   /\ observed' = Els ]_vars
    /\ [](prefersReduced => (~observerCreated /\ observed = {}))
    /\ [][prefersReduced' = prefersReduced]_vars

\* With the preference, an element beyond 90% of the viewport height is
\* revealed and nothing is observed.
C10_Witness ==
    /\ started /\ prefersReduced
    /\ \E el \in Els : ~Before90(el) /\ revealed[el]
    /\ observed = {} /\ ~observerCreated

(***************************************************************************)
(* C11, as claimed.  Unobserve on reveal: in every reachable state an      *)
(* element that is marked revealed is no longer observed by the visibility *)
(* observer, and an element that has been unobserved is never observed     *)
(* again.                                                                  *)
(***************************************************************************)
C11_RevealedNeverObserved ==
    [][ \A el \in Els :
            /\ revealed'[el] => el \notin observed'
            /\ (started /\ el \notin observed) => el \notin observed' ]_vars

(***************************************************************************)
(* C11, amended.  An element that the observer's callback marks revealed   *)
(* is no longer observed: a revealed element is still observed only if the *)
(* startup pass revealed it (it was within 90% of the viewport height),    *)
(* and then only until its first intersecting report.  An element stops    *)
(* being observed only as it is (or already was) revealed, and an element  *)
(* that has been unobserved is never observed again.                       *)
(***************************************************************************)
C11_UnobservedOnReport ==
    [][ \A el \in Els :
            /\ (revealed'[el] /\ el \in observed') => Before90(el)
            /\ (started /\ ~revealed[el] /\ revealed'[el]) => el \notin observed'
            /\ (started /\ el \in observed /\ el \notin observed') => revealed'[el]
            /\ (started /\ el \notin observed) => el \notin observed' ]_vars

\* One element beyond the fold was revealed by a report and is unobserved,
\* while another, revealed by the startup pass, is still observed.
C11_Witness ==
    /\ started /\ observerCreated
    /\ \E el \in Els : ~Before90(el) /\ revealed[el] /\ el \notin observed
    /\ \E el \in Els : Before90(el) /\ revealed[el] /\ el \in observed

(***************************************************************************)
(* C12, as claimed.  From every reachable state (the state right after     *)
(* startup with no persisted preference included), toggling the theme      *)
(* twice returns the persisted preference and the body's visual class to   *)
(* what they were: whenever the toggle is clicked, one more click would    *)
(* restore the store and the classes of before the first.                  *)
(***************************************************************************)
\* The store and the classes after one more click of the toggle from the
\* state a step leads to.
StoreAfterNextToggle ==
    IF DarkClass \in bodyClasses' THEN LightClass ELSE DarkClass
ClassesAfterNextToggle == ToggledClasses(bodyClasses')
C12_TwiceIsIdentity ==
    [][ ThemeToggleClick =>
            /\ StoreAfterNextToggle = themeStore
            /\ ClassesAfterNextToggle = bodyClasses ]_vars

(***************************************************************************)
(* C12, amended.  From every reachable state in which a preference is      *)
(* persisted (after startup with either persisted value, and after any     *)
(* toggle), toggling the theme twice returns the persisted preference and  *)
(* the body's classes to what they were.                                   *)
(***************************************************************************)
C12_TwiceIsIdentityOncePersisted ==
    [][ (ThemeToggleClick /\ themeStore # NoItem) =>
            /\ StoreAfterNextToggle = themeStore
            /\ ClassesAfterNextToggle = bodyClasses
            /\ themeStore' # themeStore
            /\ bodyClasses' # bodyClasses ]_vars

\* Two toggles after a startup that applied the stored dark theme: dark again.
C12_Witness ==
    /\ started /\ storeWrites = 2
    /\ themeStore = DarkClass
    /\ bodyClasses = {DarkClass}
    /\ themePressed = "true"

(***************************************************************************)
(* C13.  At startup a persisted theme is applied (the body's class, the    *)
(* pressed flag and the glyph are set to match it) without any write to    *)
(* the preference store, and when none is persisted nothing is applied or  *)
(* written; the store is written only by a theme toggle, and every toggle  *)
(* writes the new mode.                                                    *)
(***************************************************************************)
\* The mode the body shows after a step.
ModeShown ==
    IF DarkClass \in bodyClasses' THEN "theme-dark" ELSE "theme-light"
C13_StoreWrittenByToggleOnly ==
    /\ [][ (StartupStep /\ themeStore \in {"theme-dark", "theme-light"}) =>
              /\ bodyClasses' = {themeStore}
              /\ themePressed' = (IF themeStore = "theme-dark" THEN "true" ELSE "false")
              /\ themeGlyph' = (IF themeStore = "theme-dark" THEN SunGlyph ELSE MoonGlyph)
              /\ UNCHANGED <<themeStore, storeWrites>> ]_vars
    /\ [][ (StartupStep /\ themeStore = NoItem) => UNCHANGED themeVars ]_vars
    /\ [][ (themeStore' # themeStore \/ storeWrites' # storeWrites) =>
              ThemeToggleClick ]_vars
    /\ [][ ThemeToggleClick =>
              /\ storeWrites' = storeWrites + 1
              /\ themeStore' = ModeShown
              /\ ModeShown \in bodyClasses' ]_vars

\* The stored light theme was applied over other markup and nothing written.
C13_Witness ==
    /\ started /\ storeWrites = 0
    /\ themeStore = LightClass
    /\ bodyClasses = {LightClass}
    /\ themePressed = "false" /\ themeGlyph = MoonGlyph

(***************************************************************************)
(* C18.  After any sequence of one or more theme toggles the body carries  *)
(* exactly one of the classes theme-dark and theme-light, the persisted    *)
(* preference equals that class, and the pressed flag is true exactly when *)
(* the class is theme-dark; once written, the persisted value is never     *)
(* anything other than 'theme-dark' or 'theme-light'.                      *)
(***************************************************************************)
C18_ThemeConsistent ==
    /\ storeWrites >= 1 =>
          /\ Cardinality(bodyClasses \cap {"theme-dark", "theme-light"}) = 1
          /\ themeStore \in bodyClasses
          /\ (themePressed = "true") <=> ("theme-dark" \in bodyClasses)
          /\ themePressed \in {"true", "false"}
    /\ themeStore # NoItem => themeStore \in {"theme-dark", "theme-light"}

\* Three toggles have left the light theme shown and persisted.
C18_Witness ==
    /\ storeWrites = 3
    /\ themeStore = LightClass
    /\ bodyClasses = {LightClass}
    /\ themePressed = "false"

(***************************************************************************)
(* Vocabulary of the navigation properties.                                *)
(***************************************************************************)
Expanded == ariaExpanded = "true"
PanelShown == navDisplay = "block"
NavState == <<ariaExpanded, navDisplay, navGlyph>>
\* The id an href of the form #id names.
IdOf(href) == SubSeq(href, 2, Len(href))
TargetExists(href) == Len(href) >= 2 /\ \E id \in ElementIds : id = IdOf(href)

(***************************************************************************)
(* C14.  Each click of the navigation toggle flips the expanded flag and   *)
(* shows or hides the panel accordingly; so, from the collapsed state and  *)
(* after any sequence of toggle clicks, Escape presses and internal-link   *)
(* clicks, the expanded flag is true exactly when the panel is shown and   *)
(* exactly when the glyph is the close glyph.                              *)
(***************************************************************************)
C14_FlagPanelGlyphAgree ==
    /\ [](/\ Expanded <=> PanelShown
          /\ Expanded <=> (navGlyph = CloseGlyph))
    /\ [][ NavToggleClick =>
              /\ Expanded' <=> ~Expanded
              /\ PanelShown' <=> ~PanelShown ]_vars

\* The navigation is expanded after a link was followed while collapsed.
C14_Witness ==
    /\ Expanded /\ PanelShown /\ navGlyph = CloseGlyph
    /\ scrollTarget # <<>>

(***************************************************************************)
(* C15.  An Escape press clicks the navigation toggle exactly when the     *)
(* navigation is expanded: after any Escape press the navigation is        *)
(* collapsed, an Escape press while collapsed leaves the flag, the panel   *)
(* and the glyph unchanged, and a press of any other key never changes     *)
(* the navigation state.                                                   *)
(***************************************************************************)
C15_EscapeCollapses ==
    /\ [][ KeyDown("Escape") =>
              /\ ~Expanded' /\ ~PanelShown'
              /\ Expanded => (navGlyph' # CloseGlyph /\ navGlyph' # navGlyph)
              /\ ~Expanded => UNCHANGED NavState ]_vars
    /\ [][ (\E key \in Keys \ {"Escape"} : KeyDown(key)) =>
              UNCHANGED NavState ]_vars

\* The navigation was expanded and is collapsed again, no link having been
\* followed.
C15_Witness ==
    /\ ~Expanded /\ ~PanelShown /\ navGlyph = MenuGlyph
    /\ scrollTarget = <<>>

(***************************************************************************)
(* C20.  A click on an internal link (href '#id') whose target exists      *)
(* collapses an expanded navigation through the toggle and leaves a        *)
(* collapsed one as it is, so after it the navigation is collapsed; a      *)
(* click on a link with an empty or non-existent target leaves the         *)
(* navigation state unchanged.                                             *)
(***************************************************************************)
C20_LinkCollapses ==
    [][ \A href \in Hrefs :
          LinkClick(href) =>
            IF TargetExists(href)
            THEN /\ ~Expanded' /\ ~PanelShown' /\ navGlyph' # CloseGlyph
                 /\ ~Expanded => UNCHANGED NavState
                 /\ scrollTarget' = IdOf(href)
            ELSE UNCHANGED <<NavState, scrollTarget>> ]_vars

\* A link was followed and the navigation, once expanded, is collapsed.
C20_Witness ==
    /\ scrollTarget = <<"t", "o", "p">>
    /\ ~Expanded /\ ~PanelShown /\ navGlyph = MenuGlyph

(***************************************************************************)
(* Vocabulary of the tilt and cursor properties.                           *)
(***************************************************************************)
ReducedMotion == prefersReduced
Touch == onTouchStart \/ maxTouchPoints >= 1
\* The cursor follower is enabled: the script ran, the overlay exists and the
\* environment signals neither reduced motion nor touch.
CursorEnabled == started /\ cursorPresent /\ ~ReducedMotion /\ ~Touch
\* What the pointer, hover, focus and tilt listeners write.
PointerEffects == <<pointerVars, cursorOpacity>>

(***************************************************************************)
(* C16.  When the cursor follower is enabled, the recurring ring pulse is  *)
(* active whenever the window holds focus, across any sequence of window   *)
(* blur and focus events, and no pulse timer is outstanding whenever the   *)
(* window has lost focus; at most one pulse timer exists at any time.      *)
(***************************************************************************)
C16_PulseWhileFocused ==
    /\ CursorEnabled =>
          /\ windowFocused => pulseTimers # {}
          /\ ~windowFocused => pulseTimers = {}
    /\ Cardinality(pulseTimers) <= 1

(***************************************************************************)
(* C17, as claimed.  Under reduced motion or touch no tilt listener, no    *)
(* cursor listener and no pulse timer is registered and the cursor         *)
(* overlay, when present, is hidden; when neither signal is set, all of    *)
(* them are registered once at startup.                                    *)
(***************************************************************************)
NothingRegistered ==
    /\ \A k \in ListenerKinds : listeners[k] = 0
    /\ pulseTimers = {} /\ ringAnim = 0 /\ nextIntervalId = 1
C17_AllOrNothing ==
    started =>
        IF ReducedMotion \/ Touch
        THEN /\ NothingRegistered
             /\ cursorPresent => cursorDisplay = "none"
        ELSE /\ \A k \in ListenerKinds : listeners[k] = 1
             /\ ringAnim = 1 /\ nextIntervalId = 2

(***************************************************************************)
(* C17, amended.  Under reduced motion or touch no tilt listener, no       *)
(* cursor listener and no pulse timer is registered (so no pointer, hover, *)
(* focus or tilt event changes anything) and the cursor overlay, when      *)
(* present, is hidden.  When neither signal is set, the tilt listeners     *)
(* are registered once at startup, and so are the cursor listeners and the *)
(* pulse timer when the cursor overlay is present; without the overlay no  *)
(* cursor listener and no pulse timer is registered.                       *)
(***************************************************************************)
C17_EnabledOnlyWithoutSignals ==
    /\ [](started =>
            IF ReducedMotion \/ Touch
            THEN /\ NothingRegistered
                 /\ cursorPresent => cursorDisplay = "none"
            ELSE /\ \A k \in TiltKinds : listeners[k] = 1
                 /\ IF cursorPresent
                    THEN /\ \A k \in CursorKinds : listeners[k] = 1
                         /\ ringAnim = 1 /\ nextIntervalId = 2
                         /\ cursorDisplay # "none"
                    ELSE /\ \A k \in CursorKinds : listeners[k] = 0
                         /\ pulseTimers = {} /\ ringAnim = 0
                         /\ nextIntervalId = 1)
    /\ [][ (ReducedMotion \/ Touch) =>
              UNCHANGED <<PointerEffects, pulses>> ]_vars
    /\ [][ started => UNCHANGED <<listeners, ringAnim, nextIntervalId>> ]_vars

\* On a desktop without reduced motion everything is registered and in use.
C17_Witness ==
    /\ started /\ ~ReducedMotion /\ ~Touch /\ cursorPresent
    /\ \A k \in ListenerKinds : listeners[k] = 1
    /\ pulses >= 1
    /\ cursorPos # <<>> /\ tiltTransform # <<>>
    /\ cursorOpacity = "0"

(***************************************************************************)
(* C19, as claimed.  The reset control clears the three fields and the     *)
(* feedback message and focuses the name field, and changes nothing else:  *)
(* in particular the submit control's disabled flag and label are as       *)
(* before and no pending submission callback is cancelled or rescheduled.  *)
(***************************************************************************)
ResetClears ==
    /\ formName' = <<>> /\ formEmail' = <<>> /\ formMessage' = <<>>
    /\ feedbackText' = ""
    /\ activeElement' = "name"
ResetKeepsSubmission ==
    /\ submitDisabled' = submitDisabled
    /\ submitLabel' = submitLabel
    /\ timers' = timers
    /\ nextTimerId' = nextTimerId
    /\ locationHref' = locationHref
    /\ navigations' = navigations
C19_ResetChangesNothingElse ==
    [][ ResetClick =>
            /\ ResetClears
            /\ ResetKeepsSubmission
            /\ UNCHANGED <<started, envVars, revealVars, pageVars, cursorOpacity>>
      ]_vars

(***************************************************************************)
(* C19, amended.  The reset control clears the three fields and the        *)
(* feedback message and focuses the name field; the submit control's       *)
(* disabled flag and label are as before and no pending submission         *)
(* callback is cancelled or rescheduled.  It changes nothing else, except  *)
(* that, with the cursor follower enabled, moving the focus to the name    *)
(* field hides the cursor overlay (its opacity becomes 0) as any focus of  *)
(* a field does.                                                           *)
(***************************************************************************)
C19_ResetFrame ==
    [][ ResetClick =>
            /\ ResetClears
            /\ ResetKeepsSubmission
            /\ UNCHANGED <<started, envVars, revealVars, pageVars>>
            /\ cursorOpacity' =
                  IF CursorEnabled /\ activeElement # "name"
                  THEN "0" ELSE cursorOpacity ]_vars

\* The form was reset while a submission was pending: the fields are empty,
\* the control is still disabled and its callback still scheduled.
C19_Witness ==
    /\ formName = <<>> /\ formEmail = <<>> /\ formMessage = <<>>
    /\ feedbackText = "" /\ activeElement = "name"
    /\ submitDisabled /\ submitLabel = SendingLabel
    /\ Len(timers) = 2
    /\ CursorEnabled /\ cursorOpacity = "0"

====
